---- MODULE Spec2Model ----
(***************************************************************************)
(* Model of tom-redis (src/index.ts): the reconnect policy handed to the  *)
(* Redis client (retry_strategy), the RedisManager connection flag and    *)
(* its event listeners, and the control flow of connect / disconnect /    *)
(* demonstrateRedisOperations / main.                                      *)
(*                                                                         *)
(* Console output (console.log / console.error) is not part of the state.  *)
(***************************************************************************)
EXTENDS Integers, FiniteSets, Sequences, TLC

VARIABLES
    options,          \* RetryState handed to retry_strategy: attempt, total_retry_time, error
    outcome,          \* what retry_strategy returned for `options` (NoOutcome: not called yet)
    callsOnState,     \* how many times retry_strategy was called on the current `options`
    isConnected,      \* RedisManager.isConnected
    clientState,      \* the underlying client: idle, connecting, waiting, open, failed, closed
    connectError,     \* the error client.connect() rejected with ("none": it has not rejected)
    demoPc,           \* position in demonstrateRedisOperations
    opIndex,          \* which awaited demo operation comes next
    mainPc,           \* position in main
    disconnectCalled, \* client.disconnect() has been called
    opened,           \* the client connection was opened at some point
    waits,            \* WaitThenRetry decisions taken in the connection sequence
    onlyTransient     \* every attempt so far failed with an error other than ECONNREFUSED

vars == <<options, outcome, callsOnState, isConnected, clientState, connectError,
          demoPc, opIndex, mainPc, disconnectCalled, opened, waits, onlyTransient>>

programVars == <<clientState, connectError, demoPc, opIndex, mainPc,
                 disconnectCalled, opened, waits, onlyTransient>>

----------------------------------------------------------------------------
(* Bounds of the model *)

\* largest attempt count the model hands to the policy
MaxAttempt == 31

\* elapsed retry times (ms) drawn as policy inputs: both sides of the one-hour cap
ElapsedValues == {0, 1000, 1000 * 60 * 60, 1000 * 60 * 60 + 1, 2 * 1000 * 60 * 60}

\* extra time (ms) a failed attempt may add on top of the backoff delay
ElapsedJumps == {0, 1000 * 60 * 60}

\* error codes: "none" is an absent options.error
ErrorCodes == {"none", "ECONNREFUSED", "ETIMEDOUT"}

\* errors a failed connection attempt can carry
AttemptErrors == {"ECONNREFUSED", "ETIMEDOUT"}

RetryStates ==
    [attempt : 0..MaxAttempt, total_retry_time : ElapsedValues, error : ErrorCodes]

----------------------------------------------------------------------------
(* Outcomes of the policy: `return new Error(msg)` or `return <number>` *)

Fatal(reason) == [kind |-> "Fatal", reason |-> reason, delay |-> 0]

WaitThenRetry(delay) == [kind |-> "WaitThenRetry", reason |-> "", delay |-> delay]

NoOutcome == [kind |-> "None", reason |-> "", delay |-> 0]

Min(a, b) == IF a < b THEN a ELSE b

----------------------------------------------------------------------------
(* Variants of the policy, each with one plausible slip *)

\* the refusal check placed after the two threshold checks
retry_strategy_refusal_last(o) ==
    IF o.total_retry_time > 1000 * 60 * 60 THEN Fatal("Retry time exhausted")
    ELSE IF o.attempt > 10 THEN Fatal("Max retry attempts reached")
    ELSE IF o.error # "none" /\ o.error = "ECONNREFUSED"
         THEN Fatal("Redis server refused connection")
    ELSE WaitThenRetry(Min(o.attempt * 100, 3000))

\* the attempt check placed before the elapsed-time check
retry_strategy_attempts_first(o) ==
    IF o.error # "none" /\ o.error = "ECONNREFUSED"
    THEN Fatal("Redis server refused connection")
    ELSE IF o.attempt > 10 THEN Fatal("Max retry attempts reached")
    ELSE IF o.total_retry_time > 1000 * 60 * 60 THEN Fatal("Retry time exhausted")
    ELSE WaitThenRetry(Min(o.attempt * 100, 3000))

\* attempt threshold off by one: > 11 instead of > 10
retry_strategy_attempt_off_by_one(o) ==
    IF o.error # "none" /\ o.error = "ECONNREFUSED"
    THEN Fatal("Redis server refused connection")
    ELSE IF o.total_retry_time > 1000 * 60 * 60 THEN Fatal("Retry time exhausted")
    ELSE IF o.attempt > 11 THEN Fatal("Max retry attempts reached")
    ELSE WaitThenRetry(Min(o.attempt * 100, 3000))

\* elapsed-time threshold with >= instead of >
retry_strategy_time_inclusive(o) ==
    IF o.error # "none" /\ o.error = "ECONNREFUSED"
    THEN Fatal("Redis server refused connection")
    ELSE IF o.total_retry_time >= 1000 * 60 * 60 THEN Fatal("Retry time exhausted")
    ELSE IF o.attempt > 10 THEN Fatal("Max retry attempts reached")
    ELSE WaitThenRetry(Min(o.attempt * 100, 3000))

\* the attempt check left out: only the 3000 ms cap limits the backoff
retry_strategy_no_attempt_limit(o) ==
    IF o.error # "none" /\ o.error = "ECONNREFUSED"
    THEN Fatal("Redis server refused connection")
    ELSE IF o.total_retry_time > 1000 * 60 * 60 THEN Fatal("Retry time exhausted")
    ELSE WaitThenRetry(Min(o.attempt * 100, 3000))

\* attempt threshold of 100 instead of 10
retry_strategy_attempt_limit_100(o) ==
    IF o.error # "none" /\ o.error = "ECONNREFUSED"
    THEN Fatal("Redis server refused connection")
    ELSE IF o.total_retry_time > 1000 * 60 * 60 THEN Fatal("Retry time exhausted")
    ELSE IF o.attempt > 100 THEN Fatal("Max retry attempts reached")
    ELSE WaitThenRetry(Min(o.attempt * 100, 3000))

\* the backoff counts the calls itself instead of using options.attempt alone
retry_strategy_hidden_counter(o) ==
    IF o.error # "none" /\ o.error = "ECONNREFUSED"
    THEN Fatal("Redis server refused connection")
    ELSE IF o.total_retry_time > 1000 * 60 * 60 THEN Fatal("Retry time exhausted")
    ELSE IF o.attempt > 10 THEN Fatal("Max retry attempts reached")
    ELSE WaitThenRetry(Min((o.attempt + callsOnState) * 100, 3000))

----------------------------------------------------------------------------
(* The reconnect policy, src/index.ts 15-27 *)

retry_strategy(o) ==
    IF o.error # "none" /\ o.error = "ECONNREFUSED"
    THEN Fatal("Redis server refused connection")
    ELSE IF o.total_retry_time > 1000 * 60 * 60 THEN Fatal("Retry time exhausted")
    ELSE IF o.attempt > 10 THEN Fatal("Max retry attempts reached")
    ELSE WaitThenRetry(Min(o.attempt * 100, 3000))

----------------------------------------------------------------------------
(* Event listeners registered in the constructor, src/index.ts 31-48 *)

\* client.on('error'): this.isConnected = false
OnError == isConnected' = FALSE

\* client.on('connect'): this.isConnected = true
OnConnect == isConnected' = TRUE

\* client.on('end'): this.isConnected = false
OnEnd == isConnected' = FALSE

----------------------------------------------------------------------------
(* The policy on its own: any RetryState, any value of the connection flag *)

InitPolicy ==
    /\ options \in RetryStates
    /\ outcome = NoOutcome
    /\ callsOnState = 0
    /\ isConnected \in BOOLEAN
    /\ clientState = "idle"
    /\ connectError = "none"
    /\ demoPc = "new"
    /\ opIndex = 1
    /\ mainPc = "start"
    /\ disconnectCalled = FALSE
    /\ opened = FALSE
    /\ waits = 0
    /\ onlyTransient = TRUE

\* one call of retry_strategy(options): it assigns nothing but its return value
PolicyCall ==
    /\ callsOnState < 2
    /\ outcome' = retry_strategy(options)
    /\ callsOnState' = callsOnState + 1
    /\ UNCHANGED <<options, isConnected, programVars>>

\* the driver hands over another RetryState
NewRetryState ==
    /\ \E o \in RetryStates :
          /\ o # options
          /\ options' = o
    /\ outcome' = NoOutcome
    /\ callsOnState' = 0
    /\ UNCHANGED <<isConnected, programVars>>

\* a 'connect' or an 'error' event reaches the manager between two calls
ConnectionEvent ==
    /\ \/ OnConnect
       \/ OnError
    /\ isConnected' # isConnected
    /\ UNCHANGED <<options, outcome, callsOnState, programVars>>

NextPolicy ==
    \/ PolicyCall
    \/ NewRetryState
    \/ ConnectionEvent

SpecPolicy == InitPolicy /\ [][NextPolicy]_vars

----------------------------------------------------------------------------
(* The program: main -> demonstrateRedisOperations -> RedisManager *)

\* the awaited demo operations between connect() and the end of the try block
DemoOps == 12

Init ==
    /\ options = [attempt |-> 0, total_retry_time |-> 0, error |-> "none"]
    /\ outcome = NoOutcome
    /\ callsOnState = 0
    /\ isConnected = FALSE
    /\ clientState = "idle"
    /\ connectError = "none"
    /\ demoPc = "new"
    /\ opIndex = 1
    /\ mainPc = "start"
    /\ disconnectCalled = FALSE
    /\ opened = FALSE
    /\ waits = 0
    /\ onlyTransient = TRUE

\* main calls demonstrateRedisOperations, which constructs the manager
MainStart ==
    /\ mainPc = "start"
    /\ mainPc' = "running"
    /\ demoPc' = "connect"
    /\ UNCHANGED <<options, outcome, callsOnState, isConnected, clientState,
                   connectError, opIndex, disconnectCalled, opened, waits,
                   onlyTransient>>

\* redis.connect(): await this.client.connect()
connect ==
    /\ demoPc = "connect"
    /\ clientState = "idle"
    /\ clientState' = "connecting"
    /\ demoPc' = "awaitConnect"
    /\ UNCHANGED <<options, outcome, callsOnState, isConnected, connectError,
                   opIndex, mainPc, disconnectCalled, opened, waits, onlyTransient>>

\* A connection attempt fails with `err`: the attempt count goes up by one, the
\* 'error' listener runs and the client asks retry_strategy what to do.  A Fatal
\* outcome ends the sequence: client.connect() rejects, connect() logs and
\* rethrows, and control reaches the catch block of demonstrateRedisOperations.
AttemptFails(err) ==
    /\ clientState = "connecting"
    /\ options.attempt < MaxAttempt
    /\ LET o == [options EXCEPT !.attempt = @ + 1, !.error = err]
           r == retry_strategy(o)
       IN  /\ options' = o
           /\ outcome' = r
           /\ callsOnState' = 1
           /\ OnError
           /\ onlyTransient' = (onlyTransient /\ err # "ECONNREFUSED")
           /\ IF r.kind = "Fatal"
              THEN /\ clientState' = "failed"
                   /\ connectError' = r.reason
                   /\ demoPc' = "catch"
                   /\ waits' = waits
              ELSE /\ clientState' = "waiting"
                   /\ waits' = waits + 1
                   /\ UNCHANGED <<connectError, demoPc>>
    /\ UNCHANGED <<opIndex, mainPc, disconnectCalled, opened>>

\* The client sleeps for the delay it was given; the elapsed retry time grows by
\* the delay and by whatever the attempt itself took.
WaitThenAttempt ==
    /\ clientState = "waiting"
    /\ \E jump \in ElapsedJumps :
          options' = [options EXCEPT !.total_retry_time = @ + outcome.delay + jump]
    /\ outcome' = NoOutcome
    /\ callsOnState' = 0
    /\ clientState' = "connecting"
    /\ UNCHANGED <<isConnected, connectError, demoPc, opIndex, mainPc,
                   disconnectCalled, opened, waits, onlyTransient>>

\* A connection attempt succeeds: 'connect' and 'ready' fire, client.connect()
\* resolves and the demo goes on to its operations.
AttemptSucceeds ==
    /\ clientState = "connecting"
    /\ clientState' = "open"
    /\ OnConnect
    /\ opened' = TRUE
    /\ onlyTransient' = FALSE
    /\ demoPc' = "ops"
    /\ UNCHANGED <<options, outcome, callsOnState, connectError, opIndex, mainPc,
                   disconnectCalled, waits>>

\* an 'error' event arrives while the connection is open
ErrorEvent ==
    /\ clientState = "open"
    /\ OnError
    /\ UNCHANGED <<options, outcome, callsOnState, programVars>>

\* the next awaited operation of the demo resolves
OpSucceeds ==
    /\ demoPc = "ops"
    /\ opIndex' = opIndex + 1
    /\ demoPc' = IF opIndex = DemoOps THEN "finally" ELSE "ops"
    /\ UNCHANGED <<options, outcome, callsOnState, isConnected, clientState,
                   connectError, mainPc, disconnectCalled, opened, waits,
                   onlyTransient>>

\* the next awaited operation rejects: the wrapper logs and rethrows
OpThrows ==
    /\ demoPc = "ops"
    /\ demoPc' = "catch"
    /\ UNCHANGED <<options, outcome, callsOnState, isConnected, clientState,
                   connectError, opIndex, mainPc, disconnectCalled, opened, waits,
                   onlyTransient>>

\* catch (error) { console.error('Demo failed:', error); }
DemoCatch ==
    /\ demoPc = "catch"
    /\ demoPc' = "finally"
    /\ UNCHANGED <<options, outcome, callsOnState, isConnected, clientState,
                   connectError, opIndex, mainPc, disconnectCalled, opened, waits,
                   onlyTransient>>

\* redis.disconnect(): if (this.isConnected) await this.client.disconnect().
\* client.disconnect() either resolves ('end' fires) or rejects.
disconnect ==
    /\ demoPc = "finally"
    /\ IF isConnected
       THEN /\ disconnectCalled' = TRUE
            /\ \/ /\ clientState' = "closed"
                  /\ OnEnd
                  /\ demoPc' = "returned"
               \/ /\ demoPc' = "threw"
                  /\ UNCHANGED <<clientState, isConnected>>
       ELSE /\ demoPc' = "returned"
            /\ UNCHANGED <<disconnectCalled, clientState, isConnected>>
    /\ UNCHANGED <<options, outcome, callsOnState, connectError, opIndex, mainPc,
                   opened, waits, onlyTransient>>

\* demonstrateRedisOperations returned: main prints "Application completed successfully"
MainCompletes ==
    /\ mainPc = "running"
    /\ demoPc = "returned"
    /\ mainPc' = "completed"
    /\ UNCHANGED <<options, outcome, callsOnState, isConnected, clientState,
                   connectError, demoPc, opIndex, disconnectCalled, opened, waits,
                   onlyTransient>>

\* demonstrateRedisOperations threw: main prints "Application failed" and exits with 1
MainFails ==
    /\ mainPc = "running"
    /\ demoPc = "threw"
    /\ mainPc' = "exit1"
    /\ UNCHANGED <<options, outcome, callsOnState, isConnected, clientState,
                   connectError, demoPc, opIndex, disconnectCalled, opened, waits,
                   onlyTransient>>

Attempt ==
    \/ \E err \in AttemptErrors : AttemptFails(err)
    \/ WaitThenAttempt
    \/ AttemptSucceeds

Demo ==
    \/ connect
    \/ OpSucceeds
    \/ OpThrows
    \/ DemoCatch
    \/ disconnect

Main ==
    \/ MainStart
    \/ MainCompletes
    \/ MainFails

Next ==
    \/ Main
    \/ Demo
    \/ Attempt
    \/ ErrorEvent

Spec == Init /\ [][Next]_vars

\* The event loop runs every continuation that is ready, and the client's timers
\* fire: main, the demo and the connection sequence each keep taking their steps.
FairSpec == Spec /\ WF_vars(Main) /\ WF_vars(Demo) /\ WF_vars(Attempt)

----------------------------------------------------------------------------
(* Properties *)

RetryTimeCap == 1000 * 60 * 60

Called == callsOnState > 0

Refused == options.error = "ECONNREFUSED"

\* C1: whenever the last error is connection-refused the policy returns
\* Fatal("Redis server refused connection"), for every attempt count and every
\* elapsed time, also where a later rule would match too.
C1_RefusalIsFatal ==
    (Called /\ Refused) => outcome = Fatal("Redis server refused connection")

C1_Witness ==
    /\ Called
    /\ Refused
    /\ options.attempt > 10
    /\ options.total_retry_time > RetryTimeCap
    /\ outcome = Fatal("Redis server refused connection")

\* C2: without a refusal, an elapsed retry time strictly above 3,600,000 ms gives
\* Fatal("Retry time exhausted") for every attempt count, above 10 included.
C2_TimeExhaustedIsFatal ==
    (Called /\ ~Refused /\ options.total_retry_time > RetryTimeCap)
        => outcome = Fatal("Retry time exhausted")

C2_Witness ==
    /\ Called
    /\ options.error = "ETIMEDOUT"
    /\ options.attempt = 1
    /\ options.total_retry_time = RetryTimeCap + 1
    /\ outcome = Fatal("Retry time exhausted")

\* C3 as stated: for attempt count 11 (no refusal) the policy returns
\* Fatal("Max retry attempts reached") whatever the elapsed retry time.
C3_Original ==
    (Called /\ ~Refused /\ options.attempt = 11)
        => outcome = Fatal("Max retry attempts reached")

\* C3 amended: for attempt count 11 the outcome is always Fatal; without a
\* refusal the reason is "Max retry attempts reached" when the elapsed time is
\* at most 3,600,000 ms and "Retry time exhausted" above it.
C3_Amended ==
    (Called /\ options.attempt = 11) =>
        /\ outcome.kind = "Fatal"
        /\ (~Refused /\ options.total_retry_time <= RetryTimeCap)
              => outcome = Fatal("Max retry attempts reached")
        /\ (~Refused /\ options.total_retry_time > RetryTimeCap)
              => outcome = Fatal("Retry time exhausted")

C3_Witness ==
    /\ Called
    /\ options.attempt = 11
    /\ options.error = "ETIMEDOUT"
    /\ options.total_retry_time = RetryTimeCap
    /\ outcome = Fatal("Max retry attempts reached")

\* C4: for attempt counts 1..10, no refusal and an elapsed time of at most
\* 3,600,000 ms the policy returns WaitThenRetry(min(a*100, 3000)), which is
\* exactly a*100 ms and no less than the delay of any smaller attempt count.
C4_LinearBackoff ==
    (Called /\ ~Refused /\ options.attempt \in 1..10
            /\ options.total_retry_time <= RetryTimeCap) =>
        /\ outcome = WaitThenRetry(Min(options.attempt * 100, 3000))
        /\ outcome.delay = options.attempt * 100
        /\ \A b \in 1..options.attempt :
              /\ retry_strategy([options EXCEPT !.attempt = b]).kind = "WaitThenRetry"
              /\ retry_strategy([options EXCEPT !.attempt = b]).delay <= outcome.delay

C4_Witness ==
    /\ Called
    /\ options.attempt = 10
    /\ options.error = "ETIMEDOUT"
    /\ options.total_retry_time = RetryTimeCap
    /\ outcome = WaitThenRetry(1000)

\* C5 as stated: with no refusal and the elapsed time under the cap, attempt
\* count 1 yields a delay of 100 ms and attempt count 30 a delay of 3000 ms.
C5_Original ==
    (Called /\ ~Refused /\ options.total_retry_time <= RetryTimeCap) =>
        /\ options.attempt = 1 => outcome = WaitThenRetry(100)
        /\ options.attempt = 30 => outcome = WaitThenRetry(3000)

\* C5 amended: attempt count 1 yields a delay of 100 ms; attempt count 30 yields
\* no delay at all but Fatal("Max retry attempts reached").
C5_Amended ==
    (Called /\ ~Refused /\ options.total_retry_time <= RetryTimeCap) =>
        /\ options.attempt = 1 => outcome = WaitThenRetry(100)
        /\ options.attempt = 30 => outcome = Fatal("Max retry attempts reached")

C5_Witness ==
    /\ Called
    /\ options.attempt = 30
    /\ options.error = "none"
    /\ options.total_retry_time = 0
    /\ outcome.kind = "Fatal"

C7_FatalReachesMain ==
    mainPc = "completed" => connectError = "none"

\* C8: while every attempt fails with an error other than connection-refused,
\* at most 10 WaitThenRetry decisions are taken, and a Fatal outcome is
\* eventually reached.
C8_RetryTerminates ==
    /\ [](onlyTransient => waits <= 10)
    /\ <>(~onlyTransient \/ outcome.kind = "Fatal")

C8_Witness ==
    /\ onlyTransient
    /\ waits = 10
    /\ options.attempt = 11
    /\ outcome = Fatal("Max retry attempts reached")

\* C9: when demonstrateRedisOperations finishes and the connection had been
\* opened, client.disconnect() has been called.
C9_AlwaysDisconnects ==
    (demoPc \in {"returned", "threw"} /\ opened) => disconnectCalled

\* C10: every delay the policy returns is a multiple of 100 ms between 0 and
\* 1000 ms; it comes from an attempt count of at most 10, so the 3000 ms cap is
\* never the value returned.
C10_DelayRange ==
    (Called /\ outcome.kind = "WaitThenRetry") =>
        /\ outcome.delay \in {100 * k : k \in 0..10}
        /\ outcome.delay # 3000
        /\ options.attempt <= 10

C10_Witness ==
    /\ Called
    /\ outcome = WaitThenRetry(1000)
    /\ options.attempt = 10

====
